---- MODULE Spec2Model ----
(***************************************************************************)
(* A model of the two probabilistic factorizers of rust-factor:            *)
(*   - PollardBrentFactorizer::get_factor   (src/src/factorizer_pollard.rs)*)
(*   - DixonFactorizer::get_factor, factorize_limited and the GF(2) bit    *)
(*     matrix helpers                        (src/src/factorizer_dixon.rs) *)
(* Every call frame is one record variable whose fields carry the names of *)
(* the locals of the function it models.  Integers are unbounded, as the   *)
(* functions are generic over an arbitrary-size integer type.              *)
(***************************************************************************)
EXTENDS Integers, Sequences, FiniteSets, TLC

VARIABLES pb,   \* call frame of PollardBrentFactorizer::get_factor
          dx,   \* call frame of DixonFactorizer::get_factor (congruence collection)
          bm,   \* the DixonBitmatrix and the frame of bit_matrix_to_ref / the row scan
          fl,   \* call frame of factorize_limited
          xt    \* frame of the two successive xor_update_row calls of test_row_xor

vars == <<pb, dx, bm, fl, xt>>

(***************************************************************************)
(* Bounds of the model.                                                    *)
(***************************************************************************)
MaxX == 25          \* Pollard-Brent is called with every x in 0..MaxX
MaxValue == 100     \* factorize_limited is called with every value in 1..MaxValue
MaxPrimes == 3      \* ... and every list of at most MaxPrimes distinct primes
MaxPrime == 7       \* ... taken among the primes up to MaxPrime
MaxRows == 4        \* matrices built from 1..MaxRows factorizations
MaxCols == 2        \* ... over the first 1..MaxCols primes of PrimeSeq
MaxB == 8           \* ... of the smooth numbers b in 1..MaxB
RefRows == 3        \* bit_matrix_to_ref on every bit matrix of 1..RefRows rows
RefCols == 3        \* ... and 1..RefCols columns
MaxDixonX == 9      \* Dixon's get_factor is called with every x in 2..MaxDixonX
MaxCandidateX == 10 \* ... and, for the candidates of the row scan, with every x in 2..MaxCandidateX

(***************************************************************************)
(* util::gcd -- the standard Euclidean gcd of the util module, by its      *)
(* contract: gcd(a, 0) = a, gcd(a, b) = gcd(b, a mod b).                   *)
(***************************************************************************)
RECURSIVE gcd(_, _)
gcd(a, b) == IF b = 0 THEN a ELSE gcd(b, a % b)

\* util::isqrt -- the integer square root: the largest r with r * r <= x.
isqrt(x) == CHOOSE r \in 0..x : r * r <= x /\ (r + 1) * (r + 1) > x

min(a, b) == IF a < b THEN a ELSE b

(***************************************************************************)
(* factorizer_pollard.rs                                                   *)
(***************************************************************************)

\* next_in_sequence: (y**2 + c) % x, reduced after the square and after the sum.
next_in_sequence(y, x, c) == (((y * y) % x) + c) % x

\* `for _ in range(0, n) { y = next_in_sequence(y, x, c) }`
RECURSIVE advance(_, _, _, _)
advance(y, x, c, n) ==
    IF n <= 0 THEN y ELSE advance(next_in_sequence(y, x, c), x, c, n - 1)

\* The body of one inner batch: n times, step y and multiply (x + z - y) into q.
\* The value is the pair <<y, q>> after the loop.
RECURSIVE batch(_, _, _, _, _, _)
batch(y, q, x, c, z, n) ==
    IF n <= 0 THEN <<y, q>>
    ELSE LET y1 == next_in_sequence(y, x, c)
             q1 == (q * (x + z - y1)) % x
         IN  batch(y1, q1, x, c, z, n - 1)

\* The three guards at the head of get_factor, in the order of the code.
PBIsFast(x) == (x % 2 = 0) \/ (x % 3 = 0) \/ (x < 2)

PBFastValue(x) ==
    IF x % 2 = 0 THEN 2
    ELSE IF x % 3 = 0 THEN 3
    ELSE x

\* `r = r * literal(2)`
PBMutNextR(r) == r

PBNextR(r) == r * 2

\* `if g > One::one() { break; }`
PBMutFineBreak(g) == g >= 1

PBFineBreak(g) == g > 1

\* `let niter = min(m, r - k)`
PBNiter(m, r, k) == min(m, r - k)

PBIdle == [pc |-> "idle", x |-> 0, y |-> 0, c |-> 0, m |-> 0, g |-> 0, r |-> 0,
           q |-> 0, z |-> 0, y_prev |-> 0, k |-> 0, niter |-> 0,
           draws |-> 0, fine_steps |-> 0, ret |-> 0]

\* The frame on entry: only the argument is set.
PBEntry(x) == [PBIdle EXCEPT !.pc = "entry", !.x = x]

\* Lines 48-50: the fast paths return before any random number is drawn.
PBFastPath ==
    /\ pb.pc = "entry"
    /\ PBIsFast(pb.x)
    /\ pb' = [pb EXCEPT !.pc = "done", !.ret = PBFastValue(pb.x)]
    /\ UNCHANGED <<dx, bm, fl, xt>>

\* Line 53: `y = rng.gen_range(1, x)`, any value of [1, x).
PBDrawY ==
    /\ pb.pc = "entry"
    /\ ~PBIsFast(pb.x)
    /\ \E y \in 1..(pb.x - 1) :
          pb' = [pb EXCEPT !.pc = "draw_c", !.y = y, !.draws = 1]
    /\ UNCHANGED <<dx, bm, fl, xt>>

\* Line 54: `c = rng.gen_range(1, x)`.
PBDrawC ==
    /\ pb.pc = "draw_c"
    /\ \E c \in 1..(pb.x - 1) :
          pb' = [pb EXCEPT !.pc = "draw_m", !.c = c, !.draws = 2]
    /\ UNCHANGED <<dx, bm, fl, xt>>

\* Lines 55-62: `m = rng.gen_range(1, x)`, then the initial g, r, q, z, y_prev.
PBDrawM ==
    /\ pb.pc = "draw_m"
    /\ \E m \in 1..(pb.x - 1) :
          pb' = [pb EXCEPT !.pc = "outer", !.m = m, !.draws = 3,
                           !.g = 1, !.r = 1, !.q = 1, !.z = 0, !.y_prev = 0]
    /\ UNCHANGED <<dx, bm, fl, xt>>

\* Lines 65-72: an iteration of `while g == 1` up to the inner loop.
PBOuter ==
    /\ pb.pc = "outer"
    /\ pb.g = 1
    /\ pb' = [pb EXCEPT !.pc = "inner", !.z = pb.y,
                        !.y = advance(pb.y, pb.x, pb.c, pb.r), !.k = 0]
    /\ UNCHANGED <<dx, bm, fl, xt>>

\* Lines 73-92: one iteration of `while k < r && g == 1`.
PBInner ==
    /\ pb.pc = "inner"
    /\ pb.k < pb.r /\ pb.g = 1
    /\ LET niter == PBNiter(pb.m, pb.r, pb.k)
           yq    == batch(pb.y, pb.q, pb.x, pb.c, pb.z, niter)
       IN  pb' = [pb EXCEPT !.y_prev = pb.y, !.niter = niter,
                            !.y = yq[1], !.q = yq[2],
                            !.g = gcd(pb.x, yq[2]),
                            !.k = pb.k + pb.m]
    /\ UNCHANGED <<dx, bm, fl, xt>>

\* Line 94: the inner loop is over, r doubles.
PBOuterEnd ==
    /\ pb.pc = "inner"
    /\ ~(pb.k < pb.r /\ pb.g = 1)
    /\ pb' = [pb EXCEPT !.pc = "outer", !.r = PBNextR(pb.r)]
    /\ UNCHANGED <<dx, bm, fl, xt>>

\* Lines 98-101 and 114: the coarse search is over; g == x starts the replay.
PBCoarseEnd ==
    /\ pb.pc = "outer"
    /\ pb.g # 1
    /\ pb' = IF pb.g = pb.x
             THEN [pb EXCEPT !.pc = "fine", !.y = pb.y_prev]
             ELSE [pb EXCEPT !.pc = "done", !.ret = pb.g]
    /\ UNCHANGED <<dx, bm, fl, xt>>

\* Lines 103-109: one iteration of the fine-grained loop.
PBFine ==
    /\ pb.pc = "fine"
    /\ LET y1 == next_in_sequence(pb.y, pb.x, pb.c)
           g1 == gcd(pb.x, pb.x + pb.z - y1)
       IN  pb' = [pb EXCEPT !.y = y1, !.g = g1,
                            !.fine_steps = pb.fine_steps + 1,
                            !.pc = IF PBFineBreak(g1) THEN "done" ELSE "fine",
                            !.ret = IF PBFineBreak(g1) THEN g1 ELSE pb.ret]
    /\ UNCHANGED <<dx, bm, fl, xt>>

(***************************************************************************)
(* The Factorization type of module factorization, by its contract: a      *)
(* mapping prime -> exponent with set/get, multiplication (exponents add), *)
(* sqrt (None unless every exponent is even, else every exponent halved)   *)
(* and product.                                                            *)
(***************************************************************************)
None == [some |-> FALSE]
Some(v) == [some |-> TRUE, val |-> v]

FOne == [p \in {} |-> 0]

FGet(f, p) == IF p \in DOMAIN f THEN f[p] ELSE 0

FSet(f, p, n) == [q \in (DOMAIN f) \cup {p} |-> IF q = p THEN n ELSE f[q]]

FMul(f, h) == [p \in (DOMAIN f) \cup (DOMAIN h) |-> FGet(f, p) + FGet(h, p)]

FSqrt(f) ==
    IF \A p \in DOMAIN f : f[p] % 2 = 0
    THEN Some([p \in DOMAIN f |-> f[p] \div 2])
    ELSE None

RECURSIVE Pow(_, _)
Pow(p, n) == IF n = 0 THEN 1 ELSE p * Pow(p, n - 1)

RECURSIVE FProductOver(_, _)
FProductOver(f, keys) ==
    IF keys = {} THEN 1
    ELSE LET p == CHOOSE k \in keys : TRUE
         IN  Pow(p, f[p]) * FProductOver(f, keys \ {p})

FProduct(f) == FProductOver(f, DOMAIN f)

(***************************************************************************)
(* factorizer_dixon.rs: factorize_limited                                  *)
(***************************************************************************)

\* `while c.is_multiple_of(p) { c = c / p; count += 1 }`: the pair <<c, count>>.
FLMutDivideOut(c, p, count) ==
    IF c % p = 0 THEN <<c \div p, count + 1>> ELSE <<c, count>>

RECURSIVE FLDivideOut(_, _, _)
FLDivideOut(c, p, count) ==
    IF c % p = 0 THEN FLDivideOut(c \div p, p, count + 1) ELSE <<c, count>>

\* `for p in primes.iter() { ...; f.set(p, count) }` from index i on: <<f, c>>.
RECURSIVE FLLoop(_, _, _, _)
FLLoop(f, c, primes, i) ==
    IF i > Len(primes) THEN <<f, c>>
    ELSE LET d == FLDivideOut(c, primes[i], 0)
         IN  FLLoop(FSet(f, primes[i], d[2]), d[1], primes, i + 1)

\* Only complete factorizations are reported (x is not zero: line 156).
factorize_limited(x, primes) ==
    LET fc == FLLoop(FOne, x, primes, 1)
    IN  IF fc[2] = 1 THEN Some(fc[1]) ELSE None

IsPrime(n) == n >= 2 /\ \A d \in 2..(n - 1) : n % d # 0

Range(seq) == {seq[i] : i \in DOMAIN seq}

\* The lists of at most MaxPrimes distinct primes up to MaxPrime.
PrimeLists ==
    {l \in UNION {[1..n -> {p \in 2..MaxPrime : IsPrime(p)}] : n \in 0..MaxPrimes} :
        \A i, j \in DOMAIN l : i # j => l[i] # l[j]}

FLIdle == [pc |-> "idle", x |-> 0, primes |-> <<>>, ret |-> None]

\* The call of factorize_limited: its two arguments are set.
FLEntry(x, primes) == [FLIdle EXCEPT !.pc = "call", !.x = x, !.primes = primes]

\* Lines 153-177, the whole (pure) function.
FLCall ==
    /\ fl.pc = "call"
    /\ fl' = [fl EXCEPT !.pc = "done", !.ret = factorize_limited(fl.x, fl.primes)]
    /\ UNCHANGED <<pb, dx, bm, xt>>

(***************************************************************************)
(* factorizer_dixon.rs: DixonBitvec, DixonBitmatrix and bit_matrix_to_ref. *)
(* Row and column numbers are those of the code (from 0); row i of the     *)
(* matrix is rows[i + 1].  A BitSet is a set of numbers.                   *)
(***************************************************************************)
SymDiff(A, B) == (A \ B) \cup (B \ A)

\* DixonBitvec::is_all_zero
is_all_zero(row) == row.elements = {}

\* DixonBitmatrix::get_elem
get_elem(rows, row, col) == col \in rows[row + 1].elements

\* DixonBitmatrix::swap_rows
MutSwapRows(rows, i, j) == rows

swap_rows(rows, i, j) ==
    LET temp == rows[i + 1]
    IN  [[rows EXCEPT ![i + 1] = rows[j + 1]] EXCEPT ![j + 1] = temp]

\* DixonBitmatrix::xor_update_row: src's two sets are cloned, then dest's two
\* sets are replaced by their symmetric differences with the clones.
MutXorKeepIndices(rows, src, dest) ==
    LET elems == rows[src + 1].elements
    IN  [rows EXCEPT ![dest + 1] =
            [elements |-> SymDiff(@.elements, elems), indices |-> @.indices]]

MutXorUnion(rows, src, dest) ==
    LET elems == rows[src + 1].elements
        inds  == rows[src + 1].indices
    IN  [rows EXCEPT ![dest + 1] =
            [elements |-> @.elements \cup elems, indices |-> @.indices \cup inds]]

xor_update_row(rows, src, dest) ==
    LET elems == rows[src + 1].elements
        inds  == rows[src + 1].indices
    IN  [rows EXCEPT ![dest + 1] =
            [elements |-> SymDiff(@.elements, elems),
             indices  |-> SymDiff(@.indices, inds)]]

\* bit_matrix_from_factorizations: row i has the columns whose prime has an odd
\* power in factorizations[i], and indices = {i}.
bit_matrix_from_factorizations(factorizations, primes) ==
    [i \in 1..Len(factorizations) |->
        [elements |-> {c \in 0..(Len(primes) - 1) :
                          FGet(factorizations[i], primes[c + 1]) % 2 = 1},
         indices  |-> {i - 1}]]

BMIdle == [pc |-> "idle", factorizations |-> <<>>, primes |-> <<>>,
           rows |-> <<>>, width |-> 0,
           target_row |-> 0, col |-> 0, source_row |-> 0, other_row |-> 0]

\* The frame when get_factor reaches line 112 with these two arguments.
BMEntry(factorizations, primes) ==
    [BMIdle EXCEPT !.pc = "build", !.factorizations = factorizations,
                   !.primes = primes]

\* Line 112 (lines 266-289) and the entry of bit_matrix_to_ref (line 294).
BMBuild ==
    /\ bm.pc = "build"
    /\ bm' = [bm EXCEPT !.pc = "find",
                        !.rows = bit_matrix_from_factorizations(bm.factorizations, bm.primes),
                        !.width = Len(bm.primes),
                        !.target_row = 0, !.col = 0]
    /\ UNCHANGED <<pb, dx, fl, xt>>

\* Lines 296-303 and 315: in column col, the scan from target_row down for a
\* leading 1; the first row found is swapped into target_row.  Without one the
\* column is left.
RefFindPivot ==
    /\ bm.pc = "find"
    /\ bm.col < bm.width
    /\ LET found == {r \in bm.target_row..(Len(bm.rows) - 1) : get_elem(bm.rows, r, bm.col)}
       IN  IF found = {}
           THEN bm' = [bm EXCEPT !.col = bm.col + 1]
           ELSE LET source_row == CHOOSE r \in found : \A r2 \in found : r <= r2
                IN  bm' = [bm EXCEPT !.pc = "elim",
                                     !.source_row = source_row,
                                     !.other_row = source_row + 1,
                                     !.rows = swap_rows(bm.rows, source_row, bm.target_row)]
    /\ UNCHANGED <<pb, dx, fl, xt>>

\* Lines 306-310: one iteration of the loop over other_row.
RefEliminate ==
    /\ bm.pc = "elim"
    /\ bm.other_row < Len(bm.rows)
    /\ bm' = [bm EXCEPT !.other_row = bm.other_row + 1,
                        !.rows = IF get_elem(bm.rows, bm.other_row, bm.col)
                                 THEN xor_update_row(bm.rows, bm.target_row, bm.other_row)
                                 ELSE bm.rows]
    /\ UNCHANGED <<pb, dx, fl, xt>>

\* Lines 312-313: the column is done, and so is this target_row.
RefNextColumn ==
    /\ bm.pc = "elim"
    /\ bm.other_row >= Len(bm.rows)
    /\ bm' = [bm EXCEPT !.pc = "find", !.target_row = bm.target_row + 1,
                        !.col = bm.col + 1]
    /\ UNCHANGED <<pb, dx, fl, xt>>

\* Line 318: every column was visited, bit_matrix_to_ref returns.
RefReturn ==
    /\ bm.pc = "find"
    /\ bm.col >= bm.width
    /\ bm' = [bm EXCEPT !.pc = "ref_done"]
    /\ UNCHANGED <<pb, dx, fl, xt>>

\* Lines 123-129: the product of the b_factorizations over a row's index set.
RECURSIVE BProdFactorsOver(_, _)
BProdFactorsOver(factorizations, indices) ==
    IF indices = {} THEN FOne
    ELSE LET index == CHOOSE i \in indices : \A j \in indices : i <= j
         IN  FMul(factorizations[index + 1],
                  BProdFactorsOver(factorizations, indices \ {index}))

(***************************************************************************)
(* factorizer_dixon.rs: DixonFactorizer                                    *)
(***************************************************************************)

\* DixonFactorizer::new sets the two private fields.
extra_count == 3
max_attempts == 100

\* `weak_rng().gen_range(a_min, x)`: any value of [a_min, x).
DXMutSampleRange(low, high) == low..high

DXSampleRange(low, high) == low..(high - 1)

\* The attempt counter of a slot: `for _ in (0usize..self.max_attempts)` starts
\* at 0 for every iteration of the loop 'a.
DXMutFirstAttempt(attempt) == attempt

DXFirstAttempt(attempt) == 0

\* Lines 123-129: the product of the a_values over a row's index set.
MutAProdOver(a_values, indices) ==
    IF indices = {} THEN 1
    ELSE a_values[(CHOOSE i \in indices : \A j \in indices : j <= i) + 1]

RECURSIVE AProdOver(_, _)
AProdOver(a_values, indices) ==
    IF indices = {} THEN 1
    ELSE LET index == CHOOSE i \in indices : \A j \in indices : i <= j
         IN  a_values[index + 1] * AProdOver(a_values, indices \ {index})

DXIdle == [pc |-> "idle", x |-> 0, primes |-> <<>>, a_min |-> 0, a_count |-> 0,
           a_values |-> <<>>, b_factorizations |-> <<>>,
           slot |-> 0, attempt |-> 0, misses |-> 0,
           sampled |-> FALSE, a |-> 0, b |-> 0,
           row |-> 0, a_prod |-> 0, b_prodsqrt |-> 0, ret |-> 0]

\* Lines 57-65: the frame before the loop 'a, for a factorizer built by
\* DixonFactorizer::new(primes).
DXEntry(x, primes) ==
    [DXIdle EXCEPT !.pc = "collect", !.x = x, !.primes = primes,
                   !.a_min = isqrt(x), !.a_count = Len(primes) + extra_count]

\* Lines 68-94: one iteration of the inner loop: a sample a, b = a * a % x, the
\* early return of gcd(a, x) under its two assertions when b is 0, else the
\* attempt to factor b over the primes.
DXSample ==
    /\ dx.pc = "collect"
    /\ dx.slot < dx.a_count
    /\ dx.attempt < max_attempts
    /\ \E a \in DXSampleRange(dx.a_min, dx.x) :
         LET b == (a * a) % dx.x
             candidate == gcd(a, dx.x)
             b_factorization == factorize_limited(b, dx.primes)
             seen == [dx EXCEPT !.sampled = TRUE, !.a = a, !.b = b]
         IN  dx' = IF b = 0
                   THEN IF candidate = 1 \/ candidate = dx.x
                        THEN [seen EXCEPT !.pc = "assert_failed"]
                        ELSE [seen EXCEPT !.pc = "early_return", !.ret = candidate]
                   ELSE IF b_factorization.some
                        THEN [seen EXCEPT !.a_values = Append(@, a),
                                          !.b_factorizations = Append(@, b_factorization.val),
                                          !.slot = dx.slot + 1,
                                          !.attempt = DXFirstAttempt(dx.attempt),
                                          !.misses = 0]
                        ELSE [seen EXCEPT !.attempt = dx.attempt + 1,
                                          !.misses = dx.misses + 1]
    /\ UNCHANGED <<pb, bm, fl, xt>>

\* Line 96: the inner loop ran out: panic.
DXExhausted ==
    /\ dx.pc = "collect"
    /\ dx.slot < dx.a_count
    /\ dx.attempt >= max_attempts
    /\ dx' = [dx EXCEPT !.pc = "panic"]
    /\ UNCHANGED <<pb, bm, fl, xt>>

\* Lines 99-112: the loop 'a is over; the two assert_eq!, then the arguments of
\* bit_matrix_from_factorizations.
DXCollected ==
    /\ dx.pc = "collect"
    /\ dx.slot >= dx.a_count
    /\ IF Len(dx.a_values) = dx.a_count /\ Len(dx.b_factorizations) = dx.a_count
       THEN /\ dx' = [dx EXCEPT !.pc = "linalg"]
            /\ bm' = BMEntry(dx.b_factorizations, dx.primes)
       ELSE /\ dx' = [dx EXCEPT !.pc = "assert_eq_failed"]
            /\ bm' = bm
    /\ UNCHANGED <<pb, fl, xt>>

\* Lines 119-142: one iteration of the loop over the rows of the reduced matrix.
\* An all-zero row gives a_prod, the square root of the product of its b
\* factorizations (unwrap panics on None) and the candidate
\* gcd(a_prod - b_prodsqrt, x); the subtraction of an unsigned type stops the
\* call when a_prod < b_prodsqrt.
DXScanRow ==
    /\ dx.pc = "linalg"
    /\ bm.pc = "ref_done"
    /\ dx.row < Len(bm.rows)
    /\ LET matrix_row == bm.rows[dx.row + 1]
           a_prod == AProdOver(dx.a_values, matrix_row.indices)
           b_prod_factors == BProdFactorsOver(dx.b_factorizations, matrix_row.indices)
           b_prodsqrt_factors == FSqrt(b_prod_factors)
           b_prodsqrt == FProduct(b_prodsqrt_factors.val)
           candidate == gcd(a_prod - b_prodsqrt, dx.x)
       IN  dx' = IF ~is_all_zero(matrix_row)
                 THEN [dx EXCEPT !.row = dx.row + 1]
                 ELSE IF ~b_prodsqrt_factors.some
                 THEN [dx EXCEPT !.pc = "unwrap_failed", !.a_prod = a_prod]
                 ELSE IF a_prod < b_prodsqrt
                 THEN [dx EXCEPT !.pc = "sub_overflow", !.a_prod = a_prod,
                                 !.b_prodsqrt = b_prodsqrt]
                 ELSE IF candidate # 1 /\ candidate # dx.x
                 THEN [dx EXCEPT !.pc = "returned", !.a_prod = a_prod,
                                 !.b_prodsqrt = b_prodsqrt, !.ret = candidate]
                 ELSE [dx EXCEPT !.row = dx.row + 1, !.a_prod = a_prod,
                                 !.b_prodsqrt = b_prodsqrt]
    /\ UNCHANGED <<pb, bm, fl, xt>>

\* Line 145: no row gave a factor, `return x.clone()`.
DXLooksPrime ==
    /\ dx.pc = "linalg"
    /\ bm.pc = "ref_done"
    /\ dx.row >= Len(bm.rows)
    /\ dx' = [dx EXCEPT !.pc = "returned", !.ret = dx.x]
    /\ UNCHANGED <<pb, bm, fl, xt>>

(***************************************************************************)
(* factorizer_dixon.rs: test_row_xor, two calls of xor_update_row with the *)
(* same arguments on a matrix.                                             *)
(***************************************************************************)
XTIdle == [pc |-> "idle", src |-> 0, dest |-> 0, original |-> <<>>, once |-> <<>>]

XTReady == [XTIdle EXCEPT !.pc = "ready"]

\* Lines 358-361: `actual.xor_update_row(src, dest)` on a copy of the matrix.
XTFirstXor ==
    /\ xt.pc = "ready"
    /\ bm.pc = "find"
    /\ \E src \in 0..(Len(bm.rows) - 1), dest \in 0..(Len(bm.rows) - 1) :
         LET once == xor_update_row(bm.rows, src, dest)
         IN  /\ xt' = [xt EXCEPT !.pc = "once", !.src = src, !.dest = dest,
                                  !.original = bm.rows, !.once = once]
             /\ bm' = [bm EXCEPT !.rows = once]
    /\ UNCHANGED <<pb, dx, fl>>

\* Line 371: the same call again.
XTSecondXor ==
    /\ xt.pc = "once"
    /\ xt' = [xt EXCEPT !.pc = "twice"]
    /\ bm' = [bm EXCEPT !.rows = xor_update_row(bm.rows, xt.src, xt.dest)]
    /\ UNCHANGED <<pb, dx, fl>>

(***************************************************************************)
(* The specifications: one per function under study, each started from     *)
(* every input within the bounds.                                          *)
(***************************************************************************)

InitPollard ==
    /\ \E x \in 0..MaxX : pb = PBEntry(x)
    /\ dx = DXIdle /\ bm = BMIdle /\ fl = FLIdle /\ xt = XTIdle

NextPollard ==
    \/ PBFastPath
    \/ PBDrawY
    \/ PBDrawC
    \/ PBDrawM
    \/ PBOuter
    \/ PBInner
    \/ PBOuterEnd
    \/ PBCoarseEnd
    \/ PBFine

\* get_factor runs synchronously to completion: a step that can be taken is taken.
SpecPollard == InitPollard /\ [][NextPollard]_vars /\ WF_vars(NextPollard)

InitLimited ==
    /\ \E x \in 1..MaxValue, primes \in PrimeLists : fl = FLEntry(x, primes)
    /\ pb = PBIdle /\ dx = DXIdle /\ bm = BMIdle /\ xt = XTIdle

NextLimited == FLCall

SpecLimited == InitLimited /\ [][NextLimited]_vars

\* The factor base of w primes.
PrimeSeq == <<2, 3, 5, 7, 11>>
FirstPrimes(w) == SubSeq(PrimeSeq, 1, w)

\* The factorizations line 87 can produce for a residue b in 1..maxb.
SmoothFactorizations(primes, maxb) ==
    {factorize_limited(b, primes).val :
        b \in {v \in 1..maxb : factorize_limited(v, primes).some}}

\* The factorizations with every exponent 0 or 1: one per row of bits.
BitFactorizations(primes) == [Range(primes) -> {0, 1}]

\* get_factor's linear-algebra phase on every list of smooth residues.
InitMatrix ==
    /\ \E n \in 1..MaxRows, w \in 1..MaxCols :
         \E fs \in [1..n -> SmoothFactorizations(FirstPrimes(w), MaxB)] :
            bm = BMEntry(fs, FirstPrimes(w))
    /\ pb = PBIdle /\ dx = DXIdle /\ fl = FLIdle /\ xt = XTIdle

NextMatrix ==
    \/ BMBuild
    \/ RefFindPivot
    \/ RefEliminate
    \/ RefNextColumn
    \/ RefReturn

SpecMatrix == InitMatrix /\ [][NextMatrix]_vars

\* bit_matrix_to_ref on every matrix of bits (every row with indices = {row}).
InitRef ==
    /\ \E n \in 1..RefRows, w \in 1..RefCols :
         \E fs \in [1..n -> BitFactorizations(FirstPrimes(w))] :
            bm = BMEntry(fs, FirstPrimes(w))
    /\ pb = PBIdle /\ dx = DXIdle /\ fl = FLIdle /\ xt = XTIdle

SpecRef == InitRef /\ [][NextMatrix]_vars


\* The factor bases a DixonFactorizer is built with.
DixonBases == {<<2>>, <<2, 3>>}

InitDixon ==
    /\ \E x \in 2..MaxDixonX, primes \in DixonBases : dx = DXEntry(x, primes)
    /\ pb = PBIdle /\ bm = BMIdle /\ fl = FLIdle /\ xt = XTIdle

NextDixon ==
    \/ DXSample
    \/ DXExhausted
    \/ DXCollected
    \/ BMBuild
    \/ RefFindPivot
    \/ RefEliminate
    \/ RefNextColumn
    \/ RefReturn
    \/ DXScanRow
    \/ DXLooksPrime

SpecDixon == InitDixon /\ [][NextDixon]_vars

\* The same calls up to MaxCandidateX, where zero rows that combine several
\* congruences yield a factor.
InitCandidate ==
    /\ \E x \in 2..MaxCandidateX, primes \in DixonBases : dx = DXEntry(x, primes)
    /\ pb = PBIdle /\ bm = BMIdle /\ fl = FLIdle /\ xt = XTIdle

SpecCandidate == InitCandidate /\ [][NextDixon]_vars

\* xor_update_row twice on every bit matrix of 1..RefRows rows and 1..MaxCols
\* columns, with every pair of rows.
InitXor ==
    /\ \E n \in 1..RefRows, w \in 1..MaxCols :
         \E fs \in [1..n -> BitFactorizations(FirstPrimes(w))] :
            bm = BMEntry(fs, FirstPrimes(w))
    /\ xt = XTReady
    /\ pb = PBIdle /\ dx = DXIdle /\ fl = FLIdle

NextXor ==
    \/ BMBuild
    \/ XTFirstXor
    \/ XTSecondXor

SpecXor == InitXor /\ [][NextXor]_vars

(***************************************************************************)
(* Claims about PollardBrentFactorizer::get_factor (SpecPollard).          *)
(***************************************************************************)
Composite(x) == \E d \in 2..(x - 1) : x % d = 0

\* C1 (as stated): for every composite x and every y, c, m the value returned
\* is a nontrivial divisor of x: 1 < g < x and x mod g = 0.
C1_Original ==
    (pb.pc = "done" /\ Composite(pb.x)) =>
        (1 < pb.ret /\ pb.ret < pb.x /\ pb.x % pb.ret = 0)

\* C1 (amended): for every composite x and every y, c, m the value returned
\* is a divisor of x greater than 1: 1 < g <= x and x mod g = 0 (g may be x).
C1_Amended ==
    (pb.pc = "done" /\ Composite(pb.x)) =>
        (1 < pb.ret /\ pb.ret <= pb.x /\ pb.x % pb.ret = 0)

\* A composite x for which the replay ran and recovered a nontrivial factor.
C1_Witness ==
    /\ pb.pc = "done" /\ Composite(pb.x)
    /\ pb.fine_steps > 0
    /\ 1 < pb.ret /\ pb.ret < pb.x

\* C2: for every x < 2 (x = 0 and x = 1) get_factor returns x unchanged and
\* draws no random parameter.
C2_Claim ==
    (pb.pc = "done" /\ pb.x < 2) => (pb.ret = pb.x /\ pb.draws = 0)

\* C10: every call terminates (for every x and every y, c, m the call reaches
\* its return), and at the return the fine-grained replay has taken at most as
\* many steps as the last batch contained (niter = min(m, r - k)).
C10_Terminates ==
    <>(pb.pc = "done" /\ pb.fine_steps <= pb.niter)

\* A call on an x past the fast paths whose replay used the whole last batch.
C10_Witness ==
    /\ pb.pc = "done" /\ ~PBIsFast(pb.x)
    /\ pb.niter > 1 /\ pb.fine_steps = pb.niter

(***************************************************************************)
(* Claims about factorize_limited (SpecLimited).                           *)
(***************************************************************************)
PrimeFactors(n) == {q \in 2..n : n % q = 0 /\ IsPrime(q)}

RECURSIVE ListProduct(_, _, _)
ListProduct(f, primes, i) ==
    IF i > Len(primes) THEN 1
    ELSE Pow(primes[i], FGet(f, primes[i])) * ListProduct(f, primes, i + 1)

\* C5: for every value >= 1 and every list of distinct primes the result is
\* Some(f) exactly when every prime factor of value is in the list, and then
\* the product of p^f(p) over the list is value; otherwise the result is None.
C5_Limited ==
    fl.pc = "done" =>
        /\ fl.ret.some <=> (PrimeFactors(fl.x) \subseteq Range(fl.primes))
        /\ fl.ret.some => ListProduct(fl.ret.val, fl.primes, 1) = fl.x

\* 98 = 2 * 7^2 is factored over [2, 5, 7] (an exponent above 1, and a zero one).
C5_Witness ==
    /\ fl.pc = "done" /\ fl.x = 98 /\ fl.primes = <<2, 5, 7>>
    /\ fl.ret = Some([p \in {2, 5, 7} |-> IF p = 2 THEN 1 ELSE IF p = 5 THEN 0 ELSE 2])

(***************************************************************************)
(* Claims about the bit matrix (SpecMatrix, SpecRef).                      *)
(***************************************************************************)
\* The XOR of the sets f[i], i in S: the columns that are in an odd number of them.
XorOf(S, f, width) ==
    {c \in 0..(width - 1) : Cardinality({i \in S : c \in f[i + 1].elements}) % 2 = 1}

Reducing == bm.pc \in {"find", "elim", "ref_done"}

\* C6: at every point of bit_matrix_to_ref, each row's elements set is the XOR
\* of the original elements sets of the rows listed in its indices set; hence
\* for every all-zero row the product of the b_factorizations over its indices
\* has only even exponents, and its sqrt() is Some.
C6_Bookkeeping ==
    Reducing =>
        LET original == bit_matrix_from_factorizations(bm.factorizations, bm.primes)
        IN  \A i \in DOMAIN bm.rows :
                /\ bm.rows[i].elements = XorOf(bm.rows[i].indices, original, bm.width)
                /\ is_all_zero(bm.rows[i]) =>
                      FSqrt(BProdFactorsOver(bm.factorizations, bm.rows[i].indices)).some

\* A reduced matrix with an all-zero row that combines three original rows,
\* one of them with an exponent of 2.
C6_Witness ==
    /\ bm.pc = "ref_done"
    /\ \E i \in DOMAIN bm.rows :
          /\ is_all_zero(bm.rows[i])
          /\ Cardinality(bm.rows[i].indices) >= 3
          /\ \E j \in bm.rows[i].indices, p \in Range(bm.primes) :
                bm.factorizations[j + 1][p] >= 2

\* The column of a row's leading 1 (-1 for an all-zero row).
Lead(row) ==
    IF row.elements = {} THEN -1
    ELSE CHOOSE c \in row.elements : \A d \in row.elements : c <= d

\* C7: after bit_matrix_to_ref, for every row r with its leading 1 in column c,
\* the columns left of c are zero in r and in every row below r, column c is
\* zero in every row below r, and no all-zero row precedes a row with a leading 1.
C7_RowEchelon ==
    bm.pc = "ref_done" =>
        \A r \in 0..(Len(bm.rows) - 1) :
            LET c == Lead(bm.rows[r + 1])
            IN  /\ c >= 0 =>
                      \A r2 \in r..(Len(bm.rows) - 1) :
                          /\ \A c2 \in 0..(c - 1) : ~get_elem(bm.rows, r2, c2)
                          /\ r2 > r => ~get_elem(bm.rows, r2, c)
                /\ c < 0 =>
                      \A r2 \in r..(Len(bm.rows) - 1) : is_all_zero(bm.rows[r2 + 1])

\* A reduction that swapped a lower row up and XORed: two leading 1s, then a zero row.
C7_Witness ==
    /\ bm.pc = "ref_done"
    /\ Len(bm.rows) = 3
    /\ bm.target_row = 2
    /\ bm.rows[1].indices # {0}
    /\ Cardinality(bm.rows[3].indices) >= 2
    /\ is_all_zero(bm.rows[3])

(***************************************************************************)
(* Claims about xor_update_row (SpecXor).                                  *)
(***************************************************************************)
\* C8 (as stated): for every matrix and all valid src and dest, one
\* xor_update_row(src, dest) changes only row dest and two in succession leave
\* the matrix as it was.
C8_Original ==
    /\ xt.pc \in {"once", "twice"} =>
          \A i \in DOMAIN xt.original : i # xt.dest + 1 => xt.once[i] = xt.original[i]
    /\ xt.pc = "twice" => bm.rows = xt.original

\* C8 (amended): the same for every matrix and all valid src # dest.
C8_Amended ==
    /\ xt.pc \in {"once", "twice"} =>
          \A i \in DOMAIN xt.original : i # xt.dest + 1 => xt.once[i] = xt.original[i]
    /\ (xt.pc = "twice" /\ xt.src # xt.dest) => bm.rows = xt.original

\* Two calls with src # dest, the first of which changed row dest.
C8_Witness ==
    /\ xt.pc = "twice"
    /\ xt.src # xt.dest
    /\ xt.once # xt.original
    /\ xt.once[xt.dest + 1].elements # {}

(***************************************************************************)
(* Claims about DixonFactorizer::get_factor (SpecDixon).                   *)
(***************************************************************************)
\* C3: for every x >= 2 and every sampled a, when b = a * a mod x is 0 the
\* gcd(a, x) is neither 1 nor x: no assertion fails, and the value of the early
\* return is a nontrivial divisor of x.
C3_EarlyExit ==
    /\ dx.pc # "assert_failed"
    /\ dx.pc = "early_return" =>
          /\ dx.b = 0
          /\ dx.ret = gcd(dx.a, dx.x)
          /\ 1 < dx.ret /\ dx.ret < dx.x /\ dx.x % dx.ret = 0

\* An early return after congruences were recorded.
C3_Witness ==
    /\ dx.pc = "early_return"
    /\ dx.slot >= 1

\* C4: the attempt counter is per slot (it counts the samples without a smooth
\* b since the last recorded congruence); the call panics exactly after
\* max_attempts such samples in a row and then returns nothing; the
\* linear-algebra phase starts with |primes| + extra_count recorded pairs
\* (a, factorization of a * a mod x).
C4_Collection ==
    /\ dx.pc # "assert_eq_failed"
    /\ dx.pc \in {"collect", "panic"} =>
          /\ dx.attempt = dx.misses
          /\ dx.attempt <= max_attempts
          /\ dx.slot = Len(dx.a_values)
    /\ dx.pc = "panic" => (dx.misses = max_attempts /\ dx.ret = 0)
    /\ (dx.pc = "collect" /\ dx.slot < dx.a_count /\ dx.misses = max_attempts) =>
          (ENABLED DXExhausted /\ ~ENABLED DXSample)
    /\ dx.pc = "linalg" =>
          /\ Len(dx.a_values) = Len(dx.primes) + extra_count
          /\ Len(dx.b_factorizations) = Len(dx.primes) + extra_count
          /\ \A i \in DOMAIN dx.a_values :
                FProduct(dx.b_factorizations[i]) = (dx.a_values[i] * dx.a_values[i]) % dx.x

\* A panic in a slot after the first.
C4_Witness ==
    /\ dx.pc = "panic"
    /\ dx.slot >= 1

\* C9: for every x >= 2 every sampled a satisfies a < x and a * a > x.
C9_Claim ==
    dx.sampled => (dx.a < dx.x /\ dx.a * dx.a > dx.x)

\* C11: for every all-zero row of the reduced matrix, with a_prod the product
\* of the a_values and b_prodsqrt the square root of the product of the b
\* values over the row's indices, a_prod >= b_prodsqrt, so the subtraction
\* a_prod - b_prodsqrt never goes below zero, and gcd(a_prod - b_prodsqrt, x)
\* equals gcd((x + a_prod - b_prodsqrt) mod x, x).
C11_Subtraction ==
    /\ dx.pc # "sub_overflow"
    /\ (dx.pc \in {"linalg", "returned"} /\ bm.pc = "ref_done") =>
          \A r \in DOMAIN bm.rows :
             is_all_zero(bm.rows[r]) =>
                LET indices == bm.rows[r].indices
                    a_prod == AProdOver(dx.a_values, indices)
                    b_prod_factors == BProdFactorsOver(dx.b_factorizations, indices)
                    b_prodsqrt_factors == FSqrt(b_prod_factors)
                    b_prodsqrt == FProduct(b_prodsqrt_factors.val)
                IN  /\ b_prodsqrt_factors.some
                    /\ b_prodsqrt * b_prodsqrt = FProduct(b_prod_factors)
                    /\ a_prod >= b_prodsqrt
                    /\ gcd(a_prod - b_prodsqrt, dx.x)
                          = gcd((dx.x + a_prod - b_prodsqrt) % dx.x, dx.x)

\* A factor returned from a row that combines several congruences and whose
\* difference a_prod - b_prodsqrt is at least x, so that the reduction mod x
\* changes the first argument of the gcd.
C11_Witness ==
    /\ dx.pc = "returned" /\ bm.pc = "ref_done"
    /\ dx.ret # dx.x
    /\ dx.row < Len(bm.rows)
    /\ Cardinality(bm.rows[dx.row + 1].indices) >= 2
    /\ dx.b_prodsqrt >= 1
    /\ dx.a_prod - dx.b_prodsqrt >= dx.x

====
